---- MODULE Spec2Model ----
(***************************************************************************)
(* zipfs: a zip archive served as a read-only http.FileSystem.             *)
(*                                                                         *)
(* Strings (entry names, paths) are sequences of one-character strings, so *)
(* that strings.TrimRight, strings.Split, strings.HasPrefix and            *)
(* strings.TrimPrefix are computed character by character, as the Go code  *)
(* computes them.                                                          *)
(***************************************************************************)
EXTENDS Integers, Sequences, FiniteSets, TLC

VARIABLES
    files,      \* z.File: the archive's entries, in archive-listing order
    readerAt,   \* zipFS.readerAt # nil
    pc,         \* position in NewZipFSWithReaderAt: new, pass2, done, panic
    dirs,       \* the directory entries pass 2 has still to process
    rootFiles,  \* rootDir.Files
    trie,       \* the path index: trie key -> metadata
    handles,    \* the http.File values Open has returned, in order
    last,       \* the last call made on the filesystem and what it returned
    tick        \* flips with each Readdir call of the fair specification

vars == <<files, readerAt, pc, dirs, rootFiles, trie, handles, last, tick>>

(***************************************************************************)
(* Bounds of the model.                                                    *)
(***************************************************************************)
MaxEntries == 3     \* entries of an archive of Spec
MaxHandles == 2     \* handles open at once in SpecDir and LiveSpec
MaxSize == 2        \* stored bytes of a file entry of SpecFile
HeaderLen == 1      \* bytes of the source in front of each entry's data

(***************************************************************************)
(* package strings                                                         *)
(***************************************************************************)
Slash == "/"

RECURSIVE TrimRight(_, _)
TrimRight(s, c) ==
    IF Len(s) > 0 /\ s[Len(s)] = c
    THEN TrimRight(SubSeq(s, 1, Len(s) - 1), c)
    ELSE s

RECURSIVE Split(_, _)
Split(s, c) ==
    IF \A i \in 1..Len(s) : s[i] # c
    THEN <<s>>
    ELSE LET i == CHOOSE k \in 1..Len(s) :
                      s[k] = c /\ \A j \in 1..(k - 1) : s[j] # c
         IN  <<SubSeq(s, 1, i - 1)>> \o Split(SubSeq(s, i + 1, Len(s)), c)

HasPrefix(s, p) == Len(p) <= Len(s) /\ SubSeq(s, 1, Len(p)) = p

TrimPrefix(s, p) == IF HasPrefix(s, p) THEN SubSeq(s, Len(p) + 1, Len(s)) ELSE s

(***************************************************************************)
(* Archive entries (zip.File).  Offset is the entry's DataOffset, CSize    *)
(* and USize its CompressedSize64 and UncompressedSize64.                  *)
(***************************************************************************)
Store == "zip.Store"
Deflate == "zip.Deflate"

Entry(name, method, offset, csize, usize) ==
    [Name |-> name, Method |-> method, Offset |-> offset,
     CSize |-> csize, USize |-> usize]

\* entry.Mode().IsDir(): archive/zip sets ModeDir for a name ending in "/".
\* The archives of the model follow the zip convention that only directory
\* entries are named so.
IsDir(e) == Len(e.Name) > 0 /\ e.Name[Len(e.Name)] = Slash

(***************************************************************************)
(* The path trie.  A node's key is the sequence of its path segments; the  *)
(* root node (key <<>>) is the path "/".  A node without metadata (an      *)
(* intermediate node) carries NoMeta.                                      *)
(***************************************************************************)
NoMeta == [kind |-> "none"]
FileMeta(e) == [kind |-> "file", entry |-> e]
DirMeta(e, fs) == [kind |-> "dir", Info |-> e, Files |-> fs]
RootMeta(fs) == [kind |-> "root", Files |-> fs]

TrieKey(path) ==
    IF path = <<Slash>> THEN <<>> ELSE Split(SubSeq(path, 2, Len(path)), Slash)

RECURSIVE NodePath(_)
NodePath(key) ==
    IF Len(key) = 0 THEN <<Slash>>
    ELSE IF Len(key) = 1 THEN <<Slash>> \o key[1]
    ELSE NodePath(SubSeq(key, 1, Len(key) - 1)) \o <<Slash>> \o key[Len(key)]

newTrie == (<<>> :> NoMeta)

Add(t, path, meta) ==
    LET key   == TrieKey(path)
        chain == {SubSeq(key, 1, k) : k \in 0..Len(key)}
    IN  [k \in (DOMAIN t) \cup chain |->
            IF k = key THEN meta
            ELSE IF k \in DOMAIN t THEN t[k] ELSE NoMeta]

Find(t, path) ==
    LET key == TrieKey(path)
    IN  IF key \in DOMAIN t
        THEN [found |-> TRUE, meta |-> t[key]]
        ELSE [found |-> FALSE, meta |-> NoMeta]

\* The stored paths of the subtree under prefix's node; the order in which
\* the tree enumerates them is chosen by the caller's \E.
PrefixSearch(t, prefix) ==
    LET key == TrieKey(prefix)
    IN  IF key \notin DOMAIN t THEN {}
        ELSE {NodePath(k) : k \in {n \in DOMAIN t :
                  /\ Len(key) <= Len(n)
                  /\ SubSeq(n, 1, Len(key)) = key
                  /\ t[n].kind # "none"}}

Orders(S) ==
    {o \in [1..Cardinality(S) -> S] :
        \A i, j \in 1..Cardinality(S) : i # j => o[i] # o[j]}

(***************************************************************************)
(* NewZipFSWithReaderAt                                                    *)
(***************************************************************************)
\* a slip in line 58: the directory's name indexed as it is, slash and all
EntryPathUntrimmed(e) == <<Slash>> \o e.Name

\* lines 58 and 60: the path an entry is indexed under in pass 1
EntryPath(e) ==
    IF IsDir(e) THEN <<Slash>> \o TrimRight(e.Name, Slash)
    ELSE <<Slash>> \o e.Name

RECURSIVE Pass1Trie(_, _, _)
Pass1Trie(t, fs, i) ==
    IF i > Len(fs) THEN t
    ELSE Pass1Trie(Add(t, EntryPath(fs[i]), FileMeta(fs[i])), fs, i + 1)

TopLevel(e) == Len(Split(TrimRight(e.Name, Slash), Slash)) = 1

Pass1Root(fs) == SelectSeq(fs, TopLevel)

Pass1Dirs(fs) == SelectSeq(fs, IsDir)

\* lines 72-75: the matches of the prefix search that are kept as children
Survives(entry, dirContent) ==
    /\ HasPrefix(dirContent, <<Slash>> \o entry.Name)
    /\ Len(Split(TrimRight(TrimPrefix(dirContent, <<Slash>> \o entry.Name),
                           Slash), Slash)) <= 1

\* lines 78-79
Clone(entry, subentry) ==
    [subentry EXCEPT !.Name = SubSeq(subentry.Name, Len(entry.Name) + 1,
                                     Len(subentry.Name))]

Pass1 ==
    /\ pc = "new"
    /\ trie' = Pass1Trie(trie, files, 1)
    /\ dirs' = Pass1Dirs(files)
    /\ rootFiles' = Pass1Root(files)
    /\ pc' = "pass2"
    /\ UNCHANGED <<files, readerAt, handles, last, tick>>

Pass2 ==
    /\ pc = "pass2"
    /\ dirs # <<>>
    /\ LET entry == Head(dirs)
           name  == <<Slash>> \o TrimRight(entry.Name, Slash)
       IN  \E order \in Orders(PrefixSearch(trie, name)) :
              LET kept == SelectSeq(order, LAMBDA dc : Survives(entry, dc))
              IN  IF \E i \in 1..Len(kept) :
                        Find(trie, kept[i]).meta.kind # "file"
                  THEN \* node.meta.(*zip.File) panics
                       /\ pc' = "panic"
                       /\ UNCHANGED <<trie, dirs>>
                  ELSE /\ trie' = Add(trie, name, DirMeta(entry,
                              [i \in 1..Len(kept) |->
                                  Clone(entry, Find(trie, kept[i]).meta.entry)]))
                       /\ dirs' = Tail(dirs)
                       /\ pc' = pc
    /\ UNCHANGED <<files, readerAt, rootFiles, handles, last, tick>>

AddRoot ==
    /\ pc = "pass2"
    /\ dirs = <<>>
    /\ trie' = Add(trie, <<Slash>>, RootMeta(rootFiles))
    /\ pc' = "done"
    /\ UNCHANGED <<files, readerAt, dirs, rootFiles, handles, last, tick>>

(***************************************************************************)
(* Archives of the model: every listing, in every order, of at most        *)
(* MaxEntries distinct names out of Names.  "d/s/c" without "d/s/" has an  *)
(* implicit intermediate directory; "/" is an explicit entry for the root. *)
(***************************************************************************)
NameA == <<"a">>
NameD == <<"d", "/">>
NameDB == <<"d", "/", "b">>
NameDS == <<"d", "/", "s", "/">>
NameDSC == <<"d", "/", "s", "/", "c">>
NameRoot == <<"/">>

Names == {NameA, NameD, NameDB, NameDS, NameDSC, NameRoot}

PlainEntry(name) == Entry(name, Store, 0, 0, 0)

Archives ==
    UNION {{[i \in 1..n |-> PlainEntry(s[i])] :
               s \in {q \in [1..n -> Names] :
                         \A i, j \in 1..n : i # j => q[i] # q[j]}} :
           n \in 0..MaxEntries}

NoCall == [op |-> "none"]

Init ==
    /\ files \in Archives
    /\ readerAt = FALSE
    /\ pc = "new"
    /\ dirs = <<>>
    /\ rootFiles = <<>>
    /\ trie = newTrie
    /\ handles = <<>>
    /\ last = NoCall
    /\ tick = 0

(***************************************************************************)
(* The archive's bytes and the two ways of reading an entry.  The byte at  *)
(* absolute offset k of the random-access source is k % 256, so two reads  *)
(* agree exactly when they cover the same range.                           *)
(***************************************************************************)
ReadAt(off, n) == [i \in 1..n |-> (off + i - 1) % 256]

\* Stand-in for the zip library's decompressor: every stored byte expands
\* to two.
Inflate(raw) == [i \in 1..(2 * Len(raw)) |-> raw[(i + 1) \div 2]]

\* entry.Open(): the decompressing stream over the entry's stored bytes
EntryOpen(e) ==
    IF e.Method = Store THEN ReadAt(e.Offset, e.CSize)
    ELSE Inflate(ReadAt(e.Offset, e.CSize))

\* a slip in line 128: the section taken from the start of the source
NewSectionReaderNoOffset(e) == [base |-> 0, off |-> 0, limit |-> e.USize]

\* io.NewSectionReader(fs.readerAt, offset, int64(entry.UncompressedSize64))
NewSectionReader(e) ==
    [base |-> e.Offset, off |-> e.Offset, limit |-> e.Offset + e.USize]

\* a slip in line 122: the compression method not looked at
UseSectionReaderAnyMethod(e) == readerAt

\* line 122
UseSectionReader(e) == readerAt /\ e.Method = Store

ErrNil == "nil"
ErrNotExist == "os.ErrNotExist"
ErrInvalid == "os.ErrInvalid"
ErrEOF == "io.EOF"
ErrIO == "io failure"
ErrSeekCompressed == "seek on compressed file"
ErrNotDir == "not a directory"
ErrOffset == "Seek: negative position"

NoFile == [kind |-> "nil"]

\* processZipFile; ioOK is whether entry.DataOffset() / entry.Open() succeed
processZipFile(e, ioOK) ==
    IF UseSectionReader(e)
    THEN IF ~ioOK THEN [file |-> NoFile, err |-> ErrIO]
         ELSE [file |-> [kind |-> "uncompressed", entry |-> e,
                         sr |-> NewSectionReader(e),
                         mark |-> 0, out |-> <<>>],
               err |-> ErrNil]
    ELSE IF ~ioOK THEN [file |-> NoFile, err |-> ErrIO]
         ELSE [file |-> [kind |-> "compressed", entry |-> e,
                         stream |-> EntryOpen(e), nread |-> 0],
               err |-> ErrNil]

\* a slip in lines 112-115: the handle points at the descriptor in the index
OpenSharesIndex(meta) == TRUE

\* Open's "case zipDir: return &entry": entry is a copy of the descriptor the
\* node holds, so the handle shares no storage with the index.
OpenShares(meta) == FALSE

\* Whether some handle on the same node has already been read to its end.
DrainedBefore(key) ==
    \E i \in 1..Len(handles) :
        /\ handles[i].kind \in {"dir", "root"}
        /\ handles[i].key = key
        /\ handles[i].eof

DirHandle(name, meta) ==
    [kind |-> meta.kind, key |-> TrieKey(name), shared |-> OpenShares(meta),
     Files |-> meta.Files, got |-> <<>>, eof |-> FALSE,
     after |-> DrainedBefore(TrieKey(name))]

OpenResult(name, ioOK) ==
    IF ~HasPrefix(name, <<Slash>>)
    THEN [file |-> NoFile, err |-> ErrNotExist]
    ELSE LET node == Find(trie, name)
         IN  IF ~node.found
             THEN [file |-> NoFile, err |-> ErrNotExist]
             ELSE CASE node.meta.kind = "file" ->
                          processZipFile(node.meta.entry, ioOK)
                    [] node.meta.kind \in {"dir", "root"} ->
                          [file |-> DirHandle(name, node.meta), err |-> ErrNil]
                    [] OTHER -> [file |-> NoFile, err |-> ErrNotExist]

\* entry.DataOffset() and entry.Open() may fail; no other path of Open does I/O
IoOutcomes(name) ==
    IF HasPrefix(name, <<Slash>>) /\ Find(trie, name).meta.kind = "file"
    THEN BOOLEAN ELSE {TRUE}

\* cap bounds the handles the model keeps: an Open that returns a handle is
\* taken only while fewer than cap are held.
Open(name, cap) ==
    /\ pc = "done"
    /\ \E ioOK \in IoOutcomes(name) :
          LET r == OpenResult(name, ioOK)
          IN  /\ r.err = ErrNil => Len(handles) < cap
              /\ handles' = IF r.err = ErrNil
                            THEN Append(handles, r.file) ELSE handles
              /\ last' = [op |-> "Open", name |-> name, err |-> r.err,
                          h |-> IF r.err = ErrNil THEN Len(handles) + 1 ELSE 0]
    /\ UNCHANGED <<files, readerAt, pc, dirs, rootFiles, trie, tick>>

(***************************************************************************)
(* zipDir.Readdir, and Readdir of the file handles                         *)
(***************************************************************************)
FilesOf(f) == IF f.shared THEN trie[f.key].Files ELSE f.Files

\* lines 185-187
ReaddirCount(n, count) == IF count < 0 \/ count > n THEN n ELSE count

ReaddirCall(h, count) ==
    /\ h \in 1..Len(handles)
    /\ LET f == handles[h]
       IN  IF f.kind \in {"dir", "root"}
           THEN LET fs    == FilesOf(f)
                    c     == ReaddirCount(Len(fs), count)
                    infos == SubSeq(fs, 1, c)
                    rest  == SubSeq(fs, c + 1, Len(fs))
                IN  IF Len(fs) = 0
                    THEN /\ handles' = [handles EXCEPT ![h].eof = TRUE]
                         /\ trie' = trie
                         /\ last' = [op |-> "Readdir", h |-> h, count |-> count,
                                     before |-> fs, ret |-> <<>>, err |-> ErrEOF]
                    ELSE /\ handles' = [handles EXCEPT
                                ![h].Files = IF f.shared THEN @ ELSE rest,
                                ![h].got = @ \o infos]
                         /\ trie' = IF f.shared
                                    THEN [trie EXCEPT ![f.key].Files = rest]
                                    ELSE trie
                         /\ last' = [op |-> "Readdir", h |-> h, count |-> count,
                                     before |-> fs, ret |-> infos, err |-> ErrNil]
           ELSE /\ UNCHANGED <<handles, trie>>
                /\ last' = [op |-> "Readdir", h |-> h, count |-> count,
                            before |-> <<>>, ret |-> <<>>, err |-> ErrNotDir]
    /\ UNCHANGED <<files, readerAt, pc, dirs, rootFiles>>

Readdir(h, count) == ReaddirCall(h, count) /\ UNCHANGED tick

ReaddirTick(h, count) == ReaddirCall(h, count) /\ tick' = 1 - tick

(***************************************************************************)
(* Read and Seek                                                           *)
(***************************************************************************)
Min(a, b) == IF a < b THEN a ELSE b

SeekStart == "io.SeekStart"
SeekCurrent == "io.SeekCurrent"
SeekEnd == "io.SeekEnd"

\* io.SectionReader.Seek
SectionSeek(sr, offset, whence) ==
    LET abs == offset + (CASE whence = SeekStart -> sr.base
                           [] whence = SeekCurrent -> sr.off
                           [] OTHER -> sr.limit)
    IN  IF abs < sr.base
        THEN [sr |-> sr, ret |-> 0, err |-> ErrOffset]
        ELSE [sr |-> [sr EXCEPT !.off = abs], ret |-> abs - sr.base,
              err |-> ErrNil]

\* compressedFile.Seek
CompressedSeek(offset, whence) == [ret |-> -1, err |-> ErrSeekCompressed]

Seek(h, offset, whence) ==
    /\ h \in 1..Len(handles)
    /\ LET f == handles[h]
       IN  CASE f.kind = "uncompressed" ->
                  LET r == SectionSeek(f.sr, offset, whence)
                  IN  /\ r.sr.off <= f.sr.limit + 1   \* the model seeks at most
                                                       \* one byte past the end
                      /\ handles' = [handles EXCEPT ![h] =
                            IF r.err = ErrNil
                            THEN [f EXCEPT !.sr = r.sr, !.mark = r.ret,
                                           !.out = <<>>]
                            ELSE f]
                      /\ last' = [op |-> "Seek", h |-> h, offset |-> offset,
                                  whence |-> whence, ret |-> r.ret,
                                  err |-> r.err, was |-> f.sr.off - f.sr.base]
             [] f.kind = "compressed" ->
                  LET r == CompressedSeek(offset, whence)
                  IN  /\ UNCHANGED handles
                      /\ last' = [op |-> "Seek", h |-> h, offset |-> offset,
                                  whence |-> whence, ret |-> r.ret,
                                  err |-> r.err, was |-> f.nread]
             [] OTHER ->
                  /\ UNCHANGED handles
                  /\ last' = [op |-> "Seek", h |-> h, offset |-> offset,
                              whence |-> whence, ret |-> 0, err |-> ErrInvalid,
                              was |-> 0]
    /\ UNCHANGED <<files, readerAt, pc, dirs, rootFiles, trie, tick>>

\* io.SectionReader.Read into a buffer of n bytes
SectionRead(sr, n) ==
    IF sr.off >= sr.limit
    THEN [sr |-> sr, ret |-> <<>>, err |-> ErrEOF]
    ELSE LET m == Min(n, sr.limit - sr.off)
         IN  [sr |-> [sr EXCEPT !.off = sr.off + m], ret |-> ReadAt(sr.off, m),
              err |-> ErrNil]

Read(h, n) ==
    /\ h \in 1..Len(handles)
    /\ LET f == handles[h]
       IN  CASE f.kind = "uncompressed" ->
                  LET r == SectionRead(f.sr, n)
                  IN  /\ handles' = [handles EXCEPT ![h] =
                            [f EXCEPT !.sr = r.sr, !.out = @ \o r.ret]]
                      /\ last' = [op |-> "Read", h |-> h, ret |-> r.ret,
                                  err |-> r.err, from |-> f.sr.off]
             [] f.kind = "compressed" ->
                  LET m == Min(n, Len(f.stream))
                  IN  /\ handles' = [handles EXCEPT ![h] =
                            [f EXCEPT !.stream = SubSeq(@, m + 1, Len(@)),
                                      !.nread = @ + m]]
                      /\ last' = [op |-> "Read", h |-> h,
                                  ret |-> SubSeq(f.stream, 1, m),
                                  err |-> IF m = 0 THEN ErrEOF ELSE ErrNil,
                                  from |-> 0]
             [] OTHER ->
                  /\ UNCHANGED handles
                  /\ last' = [op |-> "Read", h |-> h, ret |-> <<>>,
                              err |-> ErrInvalid, from |-> 0]
    /\ UNCHANGED <<files, readerAt, pc, dirs, rootFiles, trie, tick>>

(***************************************************************************)
(* Specifications                                                          *)
(*                                                                         *)
(* Spec:     every archive of at most MaxEntries entries, built and then   *)
(*           opened and listed through one handle.                         *)
(* SpecDir:  a few archives, listed through up to MaxHandles handles.      *)
(* LiveSpec: SpecDir with the caller calling Readdir again and again on    *)
(*           every handle it holds.                                        *)
(* SpecFile: an archive of two files of every method and size, read and    *)
(*           sought through one handle.                                    *)
(***************************************************************************)
ProbePaths ==
    {<<Slash>>, <<Slash, "z">>, NameA, NameD}
    \cup {<<Slash>> \o n : n \in Names \ {NameRoot}}
    \cup {<<Slash>> \o TrimRight(n, Slash) : n \in Names}

Counts == -1..2

Build == Pass1 \/ Pass2 \/ AddRoot

Next ==
    \/ Build
    \/ \E name \in ProbePaths : Open(name, 1)
    \/ \E count \in Counts : Readdir(1, count)

Spec == Init /\ [][Next]_vars

ListingArchives ==
    {<<>>,
     <<PlainEntry(NameA), PlainEntry(NameD)>>,
     <<PlainEntry(NameD), PlainEntry(NameDB), PlainEntry(NameDS),
       PlainEntry(NameA)>>,
     <<PlainEntry(NameRoot), PlainEntry(NameDSC), PlainEntry(NameD),
       PlainEntry(NameDB)>>}

InitDir ==
    /\ files \in ListingArchives
    /\ readerAt = FALSE
    /\ pc = "new"
    /\ dirs = <<>>
    /\ rootFiles = <<>>
    /\ trie = newTrie
    /\ handles = <<>>
    /\ last = NoCall
    /\ tick = 0

NextDir ==
    \/ Build
    \/ \E name \in ProbePaths : Open(name, MaxHandles)
    \/ \E h \in 1..MaxHandles, count \in Counts : Readdir(h, count)

SpecDir == InitDir /\ [][NextDir]_vars

NextLive ==
    \/ Build
    \/ \E name \in ProbePaths : Open(name, MaxHandles)
    \/ \E h \in 1..MaxHandles, count \in Counts : ReaddirTick(h, count)

\* The caller keeps calling Readdir on each handle; which count it passes is
\* its own choice.
LiveSpec ==
    /\ InitDir
    /\ [][NextLive]_vars
    /\ \A h \in 1..MaxHandles : WF_vars(\E count \in Counts : ReaddirTick(h, count))

Methods == {Store, Deflate}

\* A file entry of method m with s stored bytes at data offset off
FileEntry(name, m, off, s) ==
    Entry(name, m, off, s, IF m = Store THEN s ELSE 2 * s)

FileArchive(m1, s1, m2, s2) ==
    <<PlainEntry(NameD),
      FileEntry(NameDB, m1, HeaderLen, s1),
      FileEntry(NameA, m2, HeaderLen + s1 + HeaderLen, s2)>>

InitFile ==
    /\ \E m1 \in Methods, m2 \in Methods, s1 \in 0..MaxSize, s2 \in 0..MaxSize :
          files = FileArchive(m1, s1, m2, s2)
    /\ readerAt \in BOOLEAN
    /\ pc = "new"
    /\ dirs = <<>>
    /\ rootFiles = <<>>
    /\ trie = newTrie
    /\ handles = <<>>
    /\ last = NoCall
    /\ tick = 0

FileProbePaths ==
    {<<Slash>>, <<Slash, "z">>, <<Slash>> \o NameDB, <<Slash>> \o NameA}

SeekOffsets == (0 - MaxSize - 1)..MaxSize
Whences == {SeekStart, SeekCurrent, SeekEnd}
BufLens == 1..2

NextFile ==
    \/ Build
    \/ \E name \in FileProbePaths : Open(name, 1)
    \/ \E count \in Counts : Readdir(1, count)
    \/ \E n \in BufLens : Read(1, n)
    \/ \E offset \in SeekOffsets, whence \in Whences : Seek(1, offset, whence)

SpecFile == InitFile /\ [][NextFile]_vars

(***************************************************************************)
(* What the archive says a listing is, read off the entry names without    *)
(* the index.                                                              *)
(***************************************************************************)
Range(q) == {q[i] : i \in 1..Len(q)}

NoSlash(str) == \A i \in 1..Len(str) : str[i] # Slash

\* the entry's name, trailing slashes trimmed, is one segment
OneSegment(e) == NoSlash(TrimRight(e.Name, Slash))

\* e is nested exactly one level below the directory entry d
ChildOf(d, e) ==
    /\ Len(e.Name) > Len(d.Name)
    /\ SubSeq(e.Name, 1, Len(d.Name)) = d.Name
    /\ LET rest == TrimRight(SubSeq(e.Name, Len(d.Name) + 1, Len(e.Name)), Slash)
       IN  Len(rest) > 0 /\ NoSlash(rest)

Renamed(d, e) ==
    [e EXCEPT !.Name = SubSeq(e.Name, Len(d.Name) + 1, Len(e.Name))]

ChildrenOf(d) == {Renamed(d, e) : e \in {x \in Range(files) : ChildOf(d, x)}}

RootChildren == {e \in Range(files) : OneSegment(e)}

DirPath(d) == <<Slash>> \o TrimRight(d.Name, Slash)

\* the explicit directory entries other than an entry for the root itself
DirEntries == {d \in Range(files) : IsDir(d) /\ DirPath(d) # <<Slash>>}

IsDirHandle(h) ==
    h \in 1..Len(handles) /\ handles[h].kind \in {"dir", "root"}

Listing(f) == f.got \o FilesOf(f)

ArchivePos(name) == CHOOSE i \in 1..Len(files) : files[i].Name = name

(***************************************************************************)
(* The index once NewZipFSWithReaderAt has returned (pc = "done").         *)
(***************************************************************************)
RootOpened == OpenResult(<<Slash>>, TRUE)

RootListingRight ==
    /\ RootOpened.err = ErrNil
    /\ RootOpened.file.kind = "root"
    /\ RootOpened.file.Files = SelectSeq(files, OneSegment)

DirListingRight(d) ==
    LET r == OpenResult(DirPath(d), TRUE)
    IN  /\ r.err = ErrNil
        /\ r.file.kind = "dir"
        /\ Range(r.file.Files) = ChildrenOf(d)
        /\ Len(r.file.Files) = Cardinality(ChildrenOf(d))

\* Whenever construction returns, the root listing is the one-segment
\* entries in archive order.
RootListingWhenBuilt == pc = "done" => RootListingRight

\* Whenever construction returns, every explicit directory lists its
\* immediate children and nothing else.
DirListingsWhenBuilt == pc = "done" => \A d \in DirEntries : DirListingRight(d)

\* C1: for every archive entry list, construction returns a filesystem whose
\* Open("/") succeeds with a directory handle listing exactly the entries
\* whose trimmed name has one path segment.
C1_RootListing == pc # "panic" /\ RootListingWhenBuilt

\* C2: for every archive entry list and every explicit directory entry d,
\* construction returns a filesystem whose Open(d) is a directory handle
\* listing exactly the entries nested one level below d.
C2_DirListing == pc # "panic" /\ DirListingsWhenBuilt

\* C9: the children of the root and of every explicit directory are listed
\* in archive-listing order, whatever order PrefixSearch enumerates in.
C9_ArchiveOrder ==
    pc = "done" =>
        /\ \A i, j \in 1..Len(RootOpened.file.Files) :
              i < j => ArchivePos(RootOpened.file.Files[i].Name)
                         < ArchivePos(RootOpened.file.Files[j].Name)
        /\ \A d \in DirEntries :
              LET fs == OpenResult(DirPath(d), TRUE).file.Files
              IN  \A i, j \in 1..Len(fs) :
                     i < j => ArchivePos(d.Name \o fs[i].Name)
                                < ArchivePos(d.Name \o fs[j].Name)

\* C10: construction completes for every order of the entries: whenever
\* pass 2 processes a directory, every match that survives the
\* immediate-child filter still carries a *zip.File, so line 77 cannot panic.
C10_AssertionHolds ==
    /\ pc # "panic"
    /\ (pc = "pass2" /\ dirs # <<>>) =>
          \A dc \in PrefixSearch(trie, DirPath(Head(dirs))) :
              Survives(Head(dirs), dc) => Find(trie, dc).meta.kind = "file"

\* Construction completes when every directory entry comes before the
\* directory entries nested in it.
ParentsFirst ==
    \A i, j \in 1..Len(files) :
        (IsDir(files[i]) /\ IsDir(files[j]) /\ ChildOf(files[j], files[i]))
            => j < i

PanicOnlyChildFirst == (pc = "panic") => ~ParentsFirst

\* The paths Open may answer: "/", the file entries' paths and the explicit
\* directory entries' trimmed paths.
Allowed ==
    {<<Slash>>}
    \cup {<<Slash>> \o e.Name : e \in {x \in Range(files) : ~IsDir(x)}}
    \cup {DirPath(d) : d \in {x \in Range(files) : IsDir(x)}}

Absent(name) == ~HasPrefix(name, <<Slash>>) \/ name \notin Allowed

\* C5: Open returns os.ErrNotExist and no handle for every path that does
\* not start with "/" and for every path that is neither "/", a file entry's
\* path nor an explicit directory entry's trimmed path; an implicit
\* directory is not found.
C5_NotFound ==
    /\ pc = "done" =>
          \A name \in ProbePaths, ioOK \in BOOLEAN :
              Absent(name) =>
                  OpenResult(name, ioOK) = [file |-> NoFile, err |-> ErrNotExist]
    /\ (last.op = "Open" /\ Absent(last.name)) =>
          last.err = ErrNotExist /\ last.h = 0

ImplicitDir == <<Slash, "d", Slash, "s">>

\* Open was called on an implicit directory: a node of the trie that no
\* entry names.
C5_Witness ==
    /\ last.op = "Open"
    /\ last.name = ImplicitDir
    /\ Absent(ImplicitDir)
    /\ Find(trie, ImplicitDir).found
    /\ last.err = ErrNotExist

(***************************************************************************)
(* Directory handles                                                       *)
(***************************************************************************)
\* the directory entry a "dir" handle was opened on
DirEntryAt(key) ==
    CHOOSE d \in Range(files) : IsDir(d) /\ TrieKey(DirPath(d)) = key

ExpectedAt(kind, key) ==
    IF kind = "root" THEN RootChildren ELSE ChildrenOf(DirEntryAt(key))

\* C3: the cursor is per-handle state: what a handle has returned and what
\* it has still to return are together the full child set of its directory,
\* whatever other handles on the same path have read, also for a handle
\* opened after another was drained; and no Readdir changes the child list
\* the index holds.
C3_PerHandleCursor ==
    /\ \A h \in 1..Len(handles) :
          IsDirHandle(h) =>
              /\ Range(Listing(handles[h]))
                    = ExpectedAt(handles[h].kind, handles[h].key)
              /\ Len(Listing(handles[h]))
                    = Cardinality(ExpectedAt(handles[h].kind, handles[h].key))
    /\ pc = "done" =>
          \A k \in DOMAIN trie :
              trie[k].kind \in {"dir", "root"} =>
                  /\ Range(trie[k].Files) = ExpectedAt(trie[k].kind, k)
                  /\ Len(trie[k].Files) = Cardinality(ExpectedAt(trie[k].kind, k))

\* Two handles on one directory of two children: the first was read to its
\* end before the second was opened, and the second has returned both.
C3_Witness ==
    /\ Len(handles) = 2
    /\ IsDirHandle(1) /\ IsDirHandle(2)
    /\ handles[1].key = handles[2].key
    /\ handles[1].eof
    /\ handles[2].after
    /\ Len(handles[2].got) = 2
    /\ FilesOf(handles[2]) = <<>>

\* C8: with r >= 1 children remaining Readdir(count) returns the next count
\* children when 1 <= count <= r and all r when count <= 0 or count > r,
\* and removes exactly those from the cursor; with r = 0 it returns io.EOF.
C8_ReaddirCount ==
    (last.op = "Readdir" /\ IsDirHandle(last.h)) =>
        LET r == Len(last.before)
        IN  IF r = 0
            THEN last.err = ErrEOF /\ last.ret = <<>>
            ELSE /\ last.err = ErrNil
                 /\ last.ret = IF 1 <= last.count /\ last.count <= r
                               THEN SubSeq(last.before, 1, last.count)
                               ELSE last.before
                 /\ last.ret \o FilesOf(handles[last.h]) = last.before

\* Readdir does what C8 says for every count other than zero.
ReaddirCountNonZero ==
    (last.op = "Readdir" /\ last.count # 0) => C8_ReaddirCount

\* No child is returned twice by one handle.
NoChildTwice ==
    \A h \in 1..Len(handles) :
        IsDirHandle(h) =>
            \A i, j \in 1..Len(handles[h].got) :
                i # j => handles[h].got[i] # handles[h].got[j]

\* C4: on one handle no child is returned by two calls, and if Readdir
\* keeps being called the handle eventually reports io.EOF.
C4_EventuallyEOF ==
    /\ []NoChildTwice
    /\ \A h \in 1..MaxHandles :
          [](IsDirHandle(h) => <>(IsDirHandle(h) /\ handles[h].eof))

(***************************************************************************)
(* File handles                                                            *)
(***************************************************************************)
IsFileHandle(h) ==
    h \in 1..Len(handles) /\ handles[h].kind \in {"uncompressed", "compressed"}

\* C6: a file entry is opened as the seekable handle exactly when a
\* random-access source was supplied and the entry is stored; otherwise it
\* is the sequential handle, whose every Seek fails with the
\* seek-not-supported error, whatever was read before.
C6_HandleKind ==
    /\ \A h \in 1..Len(handles) :
          IsFileHandle(h) =>
              (handles[h].kind = "uncompressed"
                  <=> (readerAt /\ handles[h].entry.Method = Store))
    /\ (last.op = "Open" /\ last.err = ErrNil) =>
          (Find(trie, last.name).meta.kind = "file" => IsFileHandle(last.h))
    /\ (last.op = "Seek" /\ IsFileHandle(last.h)
            /\ ~(readerAt /\ handles[last.h].entry.Method = Store)) =>
          last.err = ErrSeekCompressed /\ last.ret = -1

\* A compressed entry opened although a random-access source was supplied,
\* read from, and then sought.
C6_Witness ==
    /\ readerAt
    /\ last.op = "Seek"
    /\ IsFileHandle(last.h)
    /\ handles[last.h].kind = "compressed"
    /\ handles[last.h].entry.Method = Deflate
    /\ handles[last.h].nread > 0
    /\ last.offset = 0 /\ last.whence = SeekCurrent

\* The position a Seek asks for, relative to the start of the entry
SeekTarget(size) ==
    last.offset + (CASE last.whence = SeekStart -> 0
                     [] last.whence = SeekCurrent -> last.was
                     [] OTHER -> size)

\* C7: on the seekable handle of a stored entry, the bytes read after a Seek
\* to p are the bytes from p on of what a full sequential read of the entry
\* returns, up to its end; no byte outside the entry's range is exposed;
\* and a Seek to before the start of the range is an error.
C7_RoundTrip ==
    \A h \in 1..Len(handles) :
        handles[h].kind = "uncompressed" =>
            LET f    == handles[h]
                full == EntryOpen(f.entry)
                size == Len(full)
                pos  == f.sr.off - f.sr.base
            IN  /\ f.out = SubSeq(full, f.mark + 1, Min(pos, size))
                /\ (last.op = "Read" /\ last.h = h) =>
                      /\ last.err = ErrEOF => f.out = SubSeq(full, f.mark + 1, size)
                      /\ last.ret # <<>> =>
                            /\ f.entry.Offset <= last.from
                            /\ last.from + Len(last.ret)
                                  <= f.entry.Offset + f.entry.USize
                /\ (last.op = "Seek" /\ last.h = h) =>
                      IF SeekTarget(size) < 0
                      THEN last.err # ErrNil /\ pos = last.was
                      ELSE last.err = ErrNil /\ last.ret = SeekTarget(size)
                              /\ pos = SeekTarget(size)

\* A stored entry of two bytes: sought to 1 from its end, read to the end
\* and told io.EOF.
C7_Witness ==
    /\ IsFileHandle(1)
    /\ handles[1].kind = "uncompressed"
    /\ handles[1].entry.USize = 2
    /\ handles[1].mark = 1
    /\ Len(handles[1].out) = 1
    /\ last.op = "Read" /\ last.err = ErrEOF

====
